---- MODULE Spec2Model ----
(***************************************************************************)
(* Model of go-migrate: the planner (Migrator.plan), the orchestrator      *)
(* (Migrator.Plan / Migrator.Migrate) and the SQL store adapter            *)
(* (SQLDatabase.Migrate, up, down, init, transaction).                     *)
(***************************************************************************)
EXTENDS Integers, Sequences, FiniteSets, TLC

\* Highest migration version that the catalog or the applied set may hold.
MaxVersion == 3

Versions == 1..MaxVersion
\* Requested versions: 0 (everything down) up to one beyond every catalog.
Targets == 0..(MaxVersion + 1)

VARIABLES
  catalog,        \* versions listed by the Provider
  snaps,          \* catalog versions whose Snapshot() text is non-empty
  hasTx,          \* the sqldb handle implements sqldbBeginTx
  applied,        \* rows of the migrations table (committed)
  schema,         \* versions whose statement effect is in place (committed)
  inited,         \* SQLDatabase.inited
  setups,         \* number of times createTableSQL was executed
  pc,             \* position inside Migrator.Migrate / SQLDatabase.Migrate
  op,             \* last operation called on the Migrator
  version,        \* its version argument
  fault,          \* the collaborator failure injected into its planning
  actions,        \* the plan computed by the last operation
  planErr,        \* plan returned an error
  appliedAtPlan,  \* the applied set read by plan (dbList)
  idx,            \* loop index of SQLDatabase.Migrate (1-based)
  log,            \* outcome of every unit started by the running Migrate
  result,         \* what the last Migrator call returned
  file,           \* lines of a migration file, as bufio.Scanner yields them
  parsed          \* what parseFileContent returned for it

vars == <<catalog, snaps, hasTx, applied, schema, inited, setups, pc, op,
          version, fault, actions, planErr, appliedAtPlan, idx, log, result,
          file, parsed>>

\* The variables of the file provider.
fileVars == <<file, parsed>>

----------------------------------------------------------------------------
\* Direction constants.
Up == 1
Down == 2

\* Payload texts of the migration with version v.
NoText == [kind |-> "empty", v |-> 0]
UpText(v) == [kind |-> "up", v |-> v]
DownText(v) == [kind |-> "down", v |-> v]
SnapshotText(sn, v) == IF v \in sn THEN [kind |-> "snapshot", v |-> v] ELSE NoText

Action(v, text, dir) == [Version |-> v, Migration |-> text, Direction |-> dir]

\* Collaborator failures: at most one per call.
NoFault == [kind |-> "none", v |-> 0]
Faults(cat) ==
  {NoFault}
    \cup {[kind |-> k, v |-> 0] : k \in {"prov", "dblist"}}
    \cup {[kind |-> k, v |-> w] : k \in {"up", "down", "snapshot"}, w \in cat}

\* Mutation of Fails: the error of the payload call is ignored.
FailsIgnored(flt, kind, v) == FALSE

\* The call resolving payload kind of migration v returns an error.
Fails(flt, kind, v) == flt.kind = kind /\ flt.v = v

Min(S) == CHOOSE x \in S : \A y \in S : x <= y
Max(S) == CHOOSE x \in S : \A y \in S : x >= y

RECURSIVE Ascending(_)
Ascending(S) == IF S = {} THEN <<>> ELSE <<Min(S)>> \o Ascending(S \ {Min(S)})

RECURSIVE Descending(_)
Descending(S) == IF S = {} THEN <<>> ELSE <<Max(S)>> \o Descending(S \ {Max(S)})

\* Mutation of sortSlice: the comparison of the sort is reversed.
sortSliceReversed(cat) == Descending(cat)

\* sort.Slice(provList, by Version): the provider's list in ascending order.
sortSlice(cat) == Ascending(cat)

\* db.List followed by sort.Ints(dbList).
sortInts(db) == Ascending(db)

\* Mutation of SearchInts: the element is never found.
SearchIntsNotFound(list, x) == Len(list) + 1

\* sort.SearchInts / sort.Search: least index whose element is >= x, else Len+1.
SearchInts(list, x) ==
  IF \E i \in 1..Len(list) : list[i] >= x
    THEN Min({i \in 1..Len(list) : list[i] >= x})
    ELSE Len(list) + 1

PlanOk(acts) == [actions |-> acts, err |-> FALSE]
PlanError == [actions |-> <<>>, err |-> TRUE]

\* Mutation of isUp: ">=" for ">".
isUpOrEqual(ver, latest) == ver >= latest

\* "if version > latest" and "if version < latest".
isUp(ver, latest) == ver > latest
isDown(ver, latest) == ver < latest

\* Mutation of upStop: the walk never breaks at the target.
upStopNever(pmv, ver) == FALSE

\* "if pm.Version(ctx) > version { break }".
upStop(pmv, ver) == pmv > ver

\* Mutation of downStop: "<" for "<=".
downStopBelow(v, ver) == v < ver

\* "if v <= version { break }".
downStop(v, ver) == v <= ver

\* Mutation of snapshotActions: the snapshot is appended, not substituted.
snapshotActionsAppended(acc, a) == Append(acc, a)

\* "actions = []Action{{...snapshot...}}": the snapshot replaces the list.
snapshotActions(acc, a) == <<a>>

\* Mutation of resetActions: the else branch does nothing.
resetActionsSkipped(acc) == acc

\* "actions = actions[0:0]": an applied catalog version resets the list.
resetActions(acc) == <<>>

\* Mutation of noMigrations: the early return is never taken.
noMigrationsNever(cat) == FALSE

\* "if len(provList) == 0 { return nil, nil }".
noMigrations(cat) == cat = {}

\* Mutation of storeEmpty: the snapshot is tried on any store.
storeEmptyAlways(dbList) == TRUE

\* "if len(dbList) == 0": no migration is applied.
storeEmpty(dbList) == Len(dbList) = 0

\* The forward loop over provList, from index i with accumulated actions acc.
RECURSIVE upWalk(_, _, _, _, _, _, _)
upWalk(provList, sn, dbList, ver, flt, i, acc) ==
  IF i > Len(provList) THEN PlanOk(acc)
  ELSE LET pmv == provList[i]
           at == SearchInts(dbList, pmv)
       IN IF upStop(pmv, ver) THEN PlanOk(acc)
          ELSE IF at > Len(dbList) \/ dbList[at] # pmv
            THEN IF storeEmpty(dbList) /\ Fails(flt, "snapshot", pmv)
                   THEN PlanError
                 ELSE IF storeEmpty(dbList) /\ SnapshotText(sn, pmv) # NoText
                   THEN upWalk(provList, sn, dbList, ver, flt, i + 1,
                               snapshotActions(acc, Action(pmv, SnapshotText(sn, pmv), Up)))
                 ELSE IF Fails(flt, "up", pmv)
                   THEN PlanError
                 ELSE upWalk(provList, sn, dbList, ver, flt, i + 1,
                             Append(acc, Action(pmv, UpText(pmv), Up)))
            ELSE upWalk(provList, sn, dbList, ver, flt, i + 1, resetActions(acc))

\* The backward loop over dbList, from index i down to 1.
RECURSIVE downWalk(_, _, _, _, _, _)
downWalk(provList, dbList, ver, flt, i, acc) ==
  IF i < 1 THEN PlanOk(acc)
  ELSE LET v == dbList[i]
           at == SearchInts(provList, v)
       IN IF downStop(v, ver) THEN PlanOk(acc)
          ELSE IF at <= Len(provList) /\ provList[at] = v
            THEN IF Fails(flt, "down", v)
                   THEN PlanError
                 ELSE downWalk(provList, dbList, ver, flt, i - 1,
                               Append(acc, Action(provList[at], DownText(v), Down)))
            ELSE downWalk(provList, dbList, ver, flt, i - 1, acc)

\* Migrator.plan.
plan(cat, sn, db, ver, flt) ==
  IF flt.kind = "prov" THEN PlanError
  ELSE IF noMigrations(cat) THEN PlanOk(<<>>)
  ELSE IF flt.kind = "dblist" THEN PlanError
  ELSE LET provList == sortSlice(cat)
           dbList == sortInts(db)
           latest == IF Len(dbList) > 0 THEN dbList[Len(dbList)] ELSE 0
           up == IF isUp(ver, latest)
                   THEN upWalk(provList, sn, dbList, ver, flt, 1, <<>>)
                   ELSE PlanOk(<<>>)
       IN IF up.err THEN PlanError
          ELSE IF isDown(ver, latest)
            THEN downWalk(provList, dbList, ver, flt, Len(dbList), up.actions)
            ELSE up

\* Migrator.Plan: the plan, or nil with the wrapped error.
planned(cat, sn, db, ver, flt) ==
  LET a == plan(cat, sn, db, ver, flt)
  IN IF a.err THEN PlanError ELSE PlanOk(a.actions)

\* Mutation of handed: Migrate plans for the version after the required one.
handedForNext(cat, sn, db, ver, flt) == plan(cat, sn, db, ver + 1, flt)

\* Migrator.Migrate: the actions it passes to m.db.Migrate, or the error.
handed(cat, sn, db, ver, flt) == plan(cat, sn, db, ver, flt)

\* plan reaches m.db.List (and so SQLDatabase.init) unless it returned before.
planListsDb(cat, flt) == flt.kind # "prov" /\ ~noMigrations(cat)

\* Migrator.CurrentVersion / LatestVersion: the highest version, 0 if none.
CurrentVersion(db) == IF db = {} THEN 0 ELSE Max(db)
LatestVersion(cat) == IF cat = {} THEN 0 ELSE Max(cat)

----------------------------------------------------------------------------
\* The store adapter.

\* Effect of the action's statement on the schema.
execStatement(sch, a) ==
  IF a.Direction = Up THEN sch \cup {a.Version} ELSE sch \ {a.Version}

\* Mutation of execBookkeeping: the row of a reverted version is not deleted.
execBookkeepingNoDelete(db, a) ==
  IF a.Direction = Up THEN db \cup {a.Version} ELSE db

\* insertMigrationSQL / deleteMigrationSQL on the migrations table.
execBookkeeping(db, a) ==
  IF a.Direction = Up THEN db \cup {a.Version} ELSE db \ {a.Version}

\* PRIMARY KEY ("version"): inserting a recorded version must fail.
bookkeepingMustFail(db, a) == a.Direction = Up /\ a.Version \in db

\* What transaction() returns for each way its unit can end: TRUE is a
\* non-nil error.  The deferred recover assigns the err declared by
\* "tx, err := sqldb.BeginTx", not the named result, so a recovered panic
\* returns nil.
transactionErr(outcome) ==
  CASE outcome = "committed" -> FALSE
    [] outcome = "beginfailed" -> TRUE
    [] outcome = "failed" -> TRUE
    [] outcome = "commitfailed" -> TRUE
    [] outcome = "recovered" -> FALSE

Outcomes == {"ok", "err", "panic"}

----------------------------------------------------------------------------
\* The file provider: parseFileContent.

\* Longest migration file, in lines.
MaxLines == 5

sqlUpSeparator == <<"-", "-", "U", "P", "-", "-">>
sqlDownSeparator == <<"-", "-", "D", "O", "W", "N", "-", "-">>
sqlSnapshotSeparator == <<"-", "-", "S", "N", "A", "P", "S", "H", "O", "T", "-", "-">>

\* Lines a file is made of: the three separators, an empty line, a
\* statement line, and a separator followed by a blank (not a separator).
Lines ==
  {sqlUpSeparator, sqlDownSeparator, sqlSnapshotSeparator,
   <<>>, <<"a">>, sqlUpSeparator \o <<" ">>}

\* Files of at most n lines.
RECURSIVE FilesUpTo(_)
FilesUpTo(n) ==
  IF n = 0 THEN {<<>>}
  ELSE LET shorter == FilesUpTo(n - 1)
       IN shorter \cup {Append(f, l) : f \in {g \in shorter : Len(g) = n - 1}, l \in Lines}

\* The loc values of parseFileContent.
locOutside == 0
locUp == 1
locDown == 2
locSnapshot == 3

\* unicode.IsSpace on the bytes that occur.
IsSpace(c) == c \in {" ", "\n"}

\* Mutation of TrimSpace: nothing is trimmed.
TrimSpaceMissing(b) == b

\* bytes.TrimSpace.
TrimSpace(b) ==
  LET keep == {p \in 1..Len(b) : ~IsSpace(b[p])}
  IN IF keep = {} THEN <<>> ELSE SubSeq(b, Min(keep), Max(keep))

\* "b.Write(line); b.WriteByte('\n')".
writeLine(b, line) == b \o line \o <<"\n">>

\* The scan loop of parseFileContent from line i on, then the return.
RECURSIVE scanLines(_, _, _, _, _, _)
scanLines(lines, i, loc, bUp, bDown, bSnapshot) ==
  IF i > Len(lines)
    THEN [done |-> TRUE, up |-> TrimSpace(bUp), down |-> TrimSpace(bDown),
          snapshot |-> TrimSpace(bSnapshot)]
  ELSE LET line == lines[i]
       IN IF line = sqlUpSeparator
            THEN scanLines(lines, i + 1, locUp, bUp, bDown, bSnapshot)
          ELSE IF line = sqlDownSeparator
            THEN scanLines(lines, i + 1, locDown, bUp, bDown, bSnapshot)
          ELSE IF line = sqlSnapshotSeparator
            THEN scanLines(lines, i + 1, locSnapshot, bUp, bDown, bSnapshot)
          ELSE IF loc = locUp
            THEN scanLines(lines, i + 1, loc, writeLine(bUp, line), bDown, bSnapshot)
          ELSE IF loc = locDown
            THEN scanLines(lines, i + 1, loc, bUp, writeLine(bDown, line), bSnapshot)
          ELSE IF loc = locSnapshot
            THEN scanLines(lines, i + 1, loc, bUp, bDown, writeLine(bSnapshot, line))
          ELSE scanLines(lines, i + 1, loc, bUp, bDown, bSnapshot)

parseFileContent(lines) == scanLines(lines, 1, locOutside, <<>>, <<>>, <<>>)

NotParsed == [done |-> FALSE, up |-> <<>>, down |-> <<>>, snapshot |-> <<>>]

\* The variables of the Migrator and the store.
migratorVars ==
  <<catalog, snaps, hasTx, applied, schema, inited, setups, pc, op, version,
    fault, actions, planErr, appliedAtPlan, idx, log, result>>

Init ==
  /\ catalog \in SUBSET Versions
  /\ snaps \in SUBSET catalog
  /\ hasTx \in BOOLEAN
  /\ applied \in SUBSET Versions
  /\ schema = applied
  /\ inited = FALSE
  /\ setups = 0
  /\ pc = "idle"
  /\ op = "none"
  /\ version = 0
  /\ fault = NoFault
  /\ actions = <<>>
  /\ planErr = FALSE
  /\ appliedAtPlan = applied
  /\ idx = 0
  /\ log = <<>>
  /\ result = "none"
  /\ file = <<>>
  /\ parsed = NotParsed

\* Mutation of initMarks: the flag is not set.
initMarksNothing(ini) == ini

\* SQLDatabase.init: "s.inited = true" before createTableSQL is executed.
initMarks(ini) == TRUE

\* SQLDatabase.init as called from List inside plan.
initFromPlan(flt) ==
  IF planListsDb(catalog, flt) /\ ~inited
    THEN inited' = initMarks(inited) /\ setups' = setups + 1
    ELSE UNCHANGED <<inited, setups>>

\* Migrator.Plan(version).
Plan(ver, flt) ==
  /\ pc = "idle"
  /\ LET r == planned(catalog, snaps, applied, ver, flt)
     IN /\ actions' = r.actions
        /\ planErr' = r.err
        /\ result' = IF r.err THEN "err" ELSE "ok"
  /\ initFromPlan(flt)
  /\ op' = "Plan"
  /\ version' = ver
  /\ fault' = flt
  /\ appliedAtPlan' = applied
  /\ pc' = "done"
  /\ UNCHANGED <<catalog, snaps, hasTx, applied, schema, idx, log>>
  /\ UNCHANGED fileVars

\* Migrator.Migrate(version), up to the call of m.db.Migrate.
Migrate(ver, flt) ==
  /\ pc = "idle"
  /\ LET r == handed(catalog, snaps, applied, ver, flt)
     IN /\ actions' = r.actions
        /\ planErr' = r.err
        /\ result' = IF r.err THEN "err" ELSE "none"
        /\ pc' = IF r.err THEN "done" ELSE "init"
  /\ initFromPlan(flt)
  /\ op' = "Migrate"
  /\ version' = ver
  \* a failure that planning did not run into leaves no trace in the run
  /\ fault' = IF handed(catalog, snaps, applied, ver, flt).err THEN flt ELSE NoFault
  /\ appliedAtPlan' = applied
  /\ UNCHANGED <<catalog, snaps, hasTx, applied, schema, idx, log>>
  /\ UNCHANGED fileVars

\* SQLDatabase.Migrate: "if err := s.init(ctx); err != nil { return err }".
MigrateInit(ok) ==
  /\ pc = "init"
  /\ IF inited
       THEN /\ ok
            /\ UNCHANGED <<inited, setups>>
       ELSE /\ inited' = initMarks(inited)
            /\ setups' = setups + 1
  /\ IF ok
       THEN pc' = "loop" /\ idx' = 1 /\ UNCHANGED result
       ELSE pc' = "done" /\ result' = "err" /\ UNCHANGED idx
  /\ UNCHANGED <<catalog, snaps, hasTx, applied, schema, op, version, fault,
                 actions, planErr, appliedAtPlan, log>>
  /\ UNCHANGED fileVars

\* The loop is exhausted: SQLDatabase.Migrate and Migrator.Migrate return nil.
LoopReturn ==
  /\ pc = "loop"
  /\ idx > Len(actions)
  /\ pc' = "done"
  /\ result' = "ok"
  /\ UNCHANGED <<catalog, snaps, hasTx, applied, schema, inited, setups, op,
                 version, fault, actions, planErr, appliedAtPlan, idx, log>>
  /\ UNCHANGED fileVars

\* The unit of actions[idx] ends with the given outcome; the loop goes on
\* when transaction() returned nil and returns the error otherwise.
endUnit(outcome) ==
  /\ log' = [log EXCEPT ![Len(log)] = [i |-> idx, out |-> outcome]]
  /\ IF outcome = "panicked"
       THEN pc' = "done" /\ result' = "panic" /\ UNCHANGED idx
     ELSE IF transactionErr(outcome)
       THEN pc' = "done" /\ result' = "err" /\ UNCHANGED idx
     ELSE pc' = "loop" /\ idx' = idx + 1 /\ UNCHANGED result

\* s.up / s.down enter transaction(): BeginTx when the handle supports it.
BeginUnit(ok) ==
  /\ pc = "loop"
  /\ idx <= Len(actions)
  /\ IF hasTx /\ ~ok
       THEN /\ log' = Append(log, [i |-> idx, out |-> "beginfailed"])
            /\ pc' = "done"
            /\ result' = "err"
       ELSE /\ hasTx \/ ok
            /\ log' = Append(log, [i |-> idx, out |-> "open"])
            /\ pc' = "stmt"
            /\ UNCHANGED result
  /\ UNCHANGED <<catalog, snaps, hasTx, applied, schema, inited, setups, op,
                 version, fault, actions, planErr, appliedAtPlan, idx>>
  /\ UNCHANGED fileVars

\* fn: db.ExecContext(ctx, action.Migration).
ExecStatement(out) ==
  /\ pc = "stmt"
  /\ CASE out = "ok" ->
            /\ pc' = "book"
            /\ schema' = IF hasTx THEN schema ELSE execStatement(schema, actions[idx])
            /\ UNCHANGED <<log, result, idx>>
       [] out = "err" ->
            /\ endUnit("failed")
            /\ UNCHANGED schema
       [] out = "panic" ->
            /\ endUnit(IF hasTx THEN "recovered" ELSE "panicked")
            /\ UNCHANGED schema
  /\ UNCHANGED <<catalog, snaps, hasTx, applied, inited, setups, op, version,
                 fault, actions, planErr, appliedAtPlan>>
  /\ UNCHANGED fileVars

\* Mutation of rollbackSchema: no rollback, the statement's effect stays.
rollbackSchemaMissing(sch, a) == execStatement(sch, a)

\* The deferred tx.Rollback(): the statement already executed inside the
\* transaction leaves no effect on the schema.
rollbackSchema(sch, a) == sch

\* fn: db.ExecContext(ctx, insertMigrationSQL / deleteMigrationSQL, version).
ExecBookkeeping(out) ==
  /\ pc = "book"
  /\ out = "ok" => ~bookkeepingMustFail(applied, actions[idx])
  /\ CASE out = "ok" ->
            IF hasTx
              THEN /\ pc' = "commit"
                   /\ UNCHANGED <<applied, schema, log, result, idx>>
              ELSE /\ applied' = execBookkeeping(applied, actions[idx])
                   /\ endUnit("committed")
                   /\ UNCHANGED schema
       [] out = "err" ->
            /\ endUnit("failed")
            /\ schema' = IF hasTx THEN rollbackSchema(schema, actions[idx]) ELSE schema
            /\ UNCHANGED applied
       [] out = "panic" ->
            /\ endUnit(IF hasTx THEN "recovered" ELSE "panicked")
            /\ schema' = IF hasTx THEN rollbackSchema(schema, actions[idx]) ELSE schema
            /\ UNCHANGED applied
  /\ UNCHANGED <<catalog, snaps, hasTx, inited, setups, op, version,
                 fault, actions, planErr, appliedAtPlan>>
  /\ UNCHANGED fileVars

\* What a successful tx.Commit() makes durable.
commitSchema(sch, a) == execStatement(sch, a)
commitApplied(db, a) == execBookkeeping(db, a)

\* "return tx.Commit()".
Commit(ok) ==
  /\ pc = "commit"
  /\ IF ok
       THEN /\ schema' = commitSchema(schema, actions[idx])
            /\ applied' = commitApplied(applied, actions[idx])
            /\ endUnit("committed")
       ELSE /\ endUnit("commitfailed")
            /\ UNCHANGED <<schema, applied>>
  /\ UNCHANGED <<catalog, snaps, hasTx, inited, setups, op, version, fault,
                 actions, planErr, appliedAtPlan>>
  /\ UNCHANGED fileVars

\* The call returns to its caller: its frame (arguments, plan, loop state)
\* is gone and the Migrator can be called again.
Return ==
  /\ pc = "done"
  /\ pc' = "idle"
  /\ op' = "none"
  /\ version' = 0
  /\ fault' = NoFault
  /\ actions' = <<>>
  /\ planErr' = FALSE
  /\ appliedAtPlan' = applied
  /\ idx' = 0
  /\ log' = <<>>
  /\ result' = "none"
  /\ UNCHANGED <<catalog, snaps, hasTx, applied, schema, inited, setups>>
  /\ UNCHANGED fileVars

Next ==
  \/ \E ver \in Targets, flt \in Faults(catalog) : Migrate(ver, flt)
  \/ \E ok \in BOOLEAN : MigrateInit(ok)
  \/ LoopReturn
  \/ \E ok \in BOOLEAN : BeginUnit(ok)
  \/ \E out \in Outcomes : ExecStatement(out)
  \/ \E out \in Outcomes : ExecBookkeeping(out)
  \/ \E ok \in BOOLEAN : Commit(ok)
  \/ Return

Spec == Init /\ [][Next]_vars

\* Planning only: every catalog, applied set, target and fault, dry-run.
NextPlan ==
  \/ \E ver \in Targets, flt \in Faults(catalog) : Plan(ver, flt)
  \/ Return

SpecPlan == Init /\ [][NextPlan]_vars

\* fileMigration.read: the file is parsed on the first payload access.
Parse ==
  /\ ~parsed.done
  /\ parsed' = parseFileContent(file)
  /\ UNCHANGED <<file, migratorVars>>

\* A migration file of any content, not read yet; no migrator call is made.
InitParse ==
  /\ file \in FilesUpTo(MaxLines)
  /\ parsed = NotParsed
  /\ catalog = {}
  /\ snaps = {}
  /\ hasTx = FALSE
  /\ applied = {}
  /\ schema = {}
  /\ inited = FALSE
  /\ setups = 0
  /\ pc = "idle"
  /\ op = "none"
  /\ version = 0
  /\ fault = NoFault
  /\ actions = <<>>
  /\ planErr = FALSE
  /\ appliedAtPlan = {}
  /\ idx = 0
  /\ log = <<>>
  /\ result = "none"

NextParse == Parse

SpecParse == InitParse /\ [][NextParse]_vars

\* Any sequence of Plan and Migrate calls on one Migrator.
NextCalls ==
  \/ \E ver \in Targets, flt \in Faults(catalog) : Plan(ver, flt)
  \/ Next

\* The store is opened on a handle with BeginTx (a *sql.DB); planning reads
\* neither the handle nor the schema.
InitCalls == Init /\ hasTx

SpecCalls == InitCalls /\ [][NextCalls]_vars

TypeOK ==
  /\ catalog \subseteq Versions
  /\ snaps \subseteq catalog
  /\ applied \subseteq Versions
  /\ pc \in {"idle", "done", "init", "loop", "stmt", "book", "commit"}
  /\ result \in {"none", "ok", "err", "panic"}
----------------------------------------------------------------------------
\* Vocabulary of the properties.

\* Migrator.Plan has returned a plan (no error).
PlanReturned == pc = "done" /\ op = "Plan" /\ ~planErr

PlanVersions == {actions[i].Version : i \in DOMAIN actions}

StrictlyIncreasing(acts) ==
  \A i \in 1..(Len(acts) - 1) : acts[i].Version < acts[i + 1].Version
StrictlyDecreasing(acts) ==
  \A i \in 1..(Len(acts) - 1) : acts[i].Version > acts[i + 1].Version

AllUp(acts) == \A i \in DOMAIN acts : acts[i].Direction = Up
AllDown(acts) == \A i \in DOMAIN acts : acts[i].Direction = Down

\* acts is exactly one Up action with the up text per version of S, ascending.
IsUpPlanOf(acts, S) ==
  /\ Len(acts) = Cardinality(S)
  /\ {acts[i].Version : i \in DOMAIN acts} = S
  /\ StrictlyIncreasing(acts)
  /\ \A i \in DOMAIN acts : acts[i] = Action(acts[i].Version, UpText(acts[i].Version), Up)

\* acts is exactly one Down action with the down text per version of S, descending.
IsDownPlanOf(acts, S) ==
  /\ Len(acts) = Cardinality(S)
  /\ {acts[i].Version : i \in DOMAIN acts} = S
  /\ StrictlyDecreasing(acts)
  /\ \A i \in DOMAIN acts : acts[i] = Action(acts[i].Version, DownText(acts[i].Version), Down)

\* The applied set after the first n actions of acts were each recorded.
RECURSIVE AppliedAfter(_, _, _)
AppliedAfter(db, acts, n) ==
  IF n = 0 THEN db
  ELSE LET before == AppliedAfter(db, acts, n - 1)
       IN IF acts[n].Direction = Up THEN before \cup {acts[n].Version}
                                    ELSE before \ {acts[n].Version}

\* Every action of the running plan had its unit committed.
AllCommitted ==
  /\ Len(log) = Len(actions)
  /\ \A i \in DOMAIN log : log[i].out = "committed"

\* No unit is in progress.
BetweenUnits == pc \in {"idle", "init", "loop", "done"}

----------------------------------------------------------------------------
\* C1: Idempotence. When Migrate(target) has applied its whole plan, every
\* action committed, the plan recomputed for the same target against the
\* new applied set is empty.
C1_Idempotent ==
  (pc = "done" /\ op = "Migrate" /\ result = "ok" /\ AllCommitted)
    => plan(catalog, snaps, applied, version, NoFault).actions = <<>>

\* C2: a non-empty forward plan computed on a non-empty applied set holds
\* only versions above the highest applied version.
C2_AboveHighestApplied ==
  (PlanReturned /\ applied # {} /\ actions # <<>> /\ AllUp(actions))
    => \A i \in DOMAIN actions : actions[i].Version > CurrentVersion(applied)

\* C3: a plan never mixes directions: it is all Up with strictly increasing
\* versions or all Down with strictly decreasing versions.
C3_OneDirection ==
  PlanReturned =>
    \/ AllUp(actions) /\ StrictlyIncreasing(actions)
    \/ AllDown(actions) /\ StrictlyDecreasing(actions)

C3_Witness ==
  /\ PlanReturned
  /\ Len(actions) >= 2
  /\ AllDown(actions)
  /\ \E v \in catalog : v \notin applied

\* C4: a target equal to the current version gives an empty plan.
C4_TargetIsCurrent ==
  (PlanReturned /\ version = CurrentVersion(applied)) => actions = <<>>

C4_Witness ==
  /\ PlanReturned
  /\ version = CurrentVersion(applied)
  /\ applied # {}
  /\ \E v \in catalog : v \notin applied /\ v < version

\* The highest catalog version that is applied and not above the target.
HighestAppliedInCatalog ==
  CurrentVersion({v \in applied \cap catalog : v <= version})

\* C5: gap-skip. A forward plan on a non-empty applied set is exactly the Up
\* actions of the catalog versions that are not applied, not above the
\* target and above the highest applied catalog version, ascending.
C5_GapSkip ==
  (PlanReturned /\ applied # {} /\ version > CurrentVersion(applied))
    => IsUpPlanOf(actions, {v \in catalog \ applied :
                              v <= version /\ v > HighestAppliedInCatalog})

C5_Witness ==
  /\ PlanReturned
  /\ version > CurrentVersion(applied)
  /\ actions # <<>>
  /\ \E v \in catalog \ applied : v < HighestAppliedInCatalog

\* Catalog versions with a snapshot that are not above the target.
SnapshotsUpToTarget == {v \in snaps : v <= version}

\* C6: snapshot shortcut. On an empty applied set with target > 0 the plan
\* is the snapshot of the highest snapshot version <= target followed by the
\* Up actions of the catalog versions above it; without such a snapshot it
\* is the Up actions of all catalog versions <= target.
C6_SnapshotShortcut ==
  (PlanReturned /\ applied = {} /\ version > 0)
    => IF SnapshotsUpToTarget # {}
         THEN LET s == Max(SnapshotsUpToTarget)
              IN /\ actions # <<>>
                 /\ actions[1] = Action(s, [kind |-> "snapshot", v |-> s], Up)
                 /\ IsUpPlanOf(Tail(actions), {v \in catalog : v > s /\ v <= version})
         ELSE IsUpPlanOf(actions, {v \in catalog : v <= version})

C6_Witness ==
  /\ PlanReturned
  /\ applied = {}
  /\ Len(actions) >= 2
  /\ actions[1].Migration.kind = "snapshot"
  /\ \E v \in catalog : v < actions[1].Version

\* C7: a backward plan is exactly one Down action, with the down text, per
\* applied version above the target that is in the catalog, descending.
C7_BackwardContent ==
  (PlanReturned /\ version < CurrentVersion(applied))
    => IsDownPlanOf(actions, {v \in applied \cap catalog : v > version})

C7_Witness ==
  /\ PlanReturned
  /\ version < CurrentVersion(applied)
  /\ actions # <<>>
  /\ \E v \in applied \ catalog : v > version
  /\ \E v \in applied : v <= version

\* C8: a forward plan holds no version above the target; a target above the
\* highest catalog version is no error and the plan ends at the highest
\* catalog version.
C8_CapAndSaturation ==
  /\ (PlanReturned /\ AllUp(actions))
       => \A i \in DOMAIN actions : actions[i].Version <= version
  /\ (pc = "done" /\ op = "Plan" /\ fault = NoFault /\ version > LatestVersion(catalog))
       => /\ ~planErr
          /\ (catalog # {} /\ version > CurrentVersion(applied)
                /\ LatestVersion(catalog) \notin applied)
               => /\ actions # <<>>
                  /\ actions[Len(actions)].Version = LatestVersion(catalog)

C8_Witness ==
  /\ PlanReturned
  /\ version > LatestVersion(catalog)
  /\ Len(actions) >= 2
  /\ actions[Len(actions)].Version = LatestVersion(catalog)

\* C9: halt on failure. Units are started in plan order, and a unit that
\* did not commit is the last one started: Migrate has ended with the
\* failure surfaced to its caller (an error, or the panic itself when no
\* transaction recovers it), the actions before it are recorded and the
\* failing one is not.
C9_HaltOnFailure ==
  \A i \in DOMAIN log :
    /\ log[i].i = i
    /\ log[i].out \notin {"open", "committed"}
         => /\ Len(log) = i
            /\ pc = "done"
            /\ result \in {"err", "panic"}
            /\ applied = AppliedAfter(appliedAtPlan, actions, i - 1)

\* C10: per-action atomicity. Between units the statement effects in place
\* are exactly those of the recorded versions.
C10_Atomic == BetweenUnits => schema = applied

\* C10 amended: the same, for a handle that supports BeginTx.
C10_AtomicInTx == (hasTx /\ BetweenUnits) => schema = applied

C10_Witness ==
  /\ hasTx
  /\ pc = "done"
  /\ log # <<>>
  /\ log[Len(log)].out = "commitfailed"
\* C11: Migrate reaches the required version. After Migrate(version) has
\* returned nil with every planned action committed, the current version is
\* the requested one, or the latest available one when the request is
\* higher (here even for a requested version that the catalog lists, or 0,
\* on a store that holds catalog versions only).
C11_ReachesVersion ==
  (/\ pc = "done" /\ op = "Migrate" /\ result = "ok" /\ AllCommitted
   /\ version \in catalog \cup {0}
   /\ appliedAtPlan \subseteq catalog)
    => CurrentVersion(applied) =
         IF version <= LatestVersion(catalog) THEN version
                                               ELSE LatestVersion(catalog)
PayloadKinds == {"up", "down", "snapshot"}

\* The planner resolves payload kind of migration v for the recorded call:
\* forward, the snapshot (on an empty store) and, unless a snapshot is
\* taken, the up text of every unapplied catalog version <= target;
\* backward, the down text of every applied catalog version > target.
ReadsPayload(kind, v) ==
  LET forward == version > CurrentVersion(applied)
                   /\ v \in catalog \ applied /\ v <= version
  IN CASE kind = "snapshot" -> forward /\ applied = {}
       [] kind = "up" -> forward /\ ~(applied = {} /\ v \in snaps)
       [] kind = "down" -> version < CurrentVersion(applied)
                             /\ v \in applied \cap catalog /\ v > version
       [] OTHER -> FALSE

\* C12: a payload-resolution failure is fatal to planning. Plan returns an
\* error and no actions when a payload it reads fails to resolve, and a
\* Migrate whose planning failed on a payload returns an error without
\* starting any unit, the applied set unchanged.
C12_PayloadFailureFatal ==
  /\ (pc = "done" /\ op = "Plan" /\ ReadsPayload(fault.kind, fault.v))
       => planErr /\ actions = <<>> /\ result = "err"
  /\ (op = "Migrate" /\ fault.kind \in PayloadKinds)
       => /\ pc = "done"
          /\ planErr
          /\ result = "err"
          /\ actions = <<>>
          /\ log = <<>>
          /\ applied = appliedAtPlan

C12_Witness ==
  /\ pc = "done"
  /\ op = "Plan"
  /\ fault.kind = "up"
  /\ ReadsPayload(fault.kind, fault.v)
  /\ \E w \in catalog \ applied : w < fault.v /\ ReadsPayload("up", w)
\* C13: empty catalog. When the provider lists no migrations, Plan returns
\* an empty plan and no error whatever the applied set and the target (the
\* store is not even listed), and Migrate starts no unit and leaves the
\* applied set as it was.
C13_EmptyCatalog ==
  /\ (pc = "done" /\ op = "Plan" /\ catalog = {} /\ fault.kind # "prov")
       => ~planErr /\ actions = <<>> /\ result = "ok"
  /\ (op = "Migrate" /\ catalog = {})
       => actions = <<>> /\ log = <<>> /\ applied = appliedAtPlan

C13_Witness ==
  /\ pc = "done"
  /\ op = "Plan"
  /\ catalog = {}
  /\ applied # {}
  /\ version < CurrentVersion(applied)
  /\ fault.kind = "dblist"
\* A unit of the running Migrate is in progress.
InUnit == pc \in {"stmt", "book", "commit"}

\* The action in progress can be recorded: an Up is for a version that is
\* not applied, a Down for one that is.
TargetsFit ==
  InUnit => IF actions[idx].Direction = Up
              THEN actions[idx].Version \notin applied
              ELSE actions[idx].Version \in applied

\* The applied set changes only when the unit in progress commits, and then
\* by exactly the version of its action.
OneVersionPerCommit ==
  applied' # applied
    => /\ InUnit
       /\ log'[Len(log')] = [i |-> idx, out |-> "committed"]
       /\ applied' = IF actions[idx].Direction = Up
                       THEN applied \cup {actions[idx].Version}
                       ELSE applied \ {actions[idx].Version}
       /\ Cardinality(applied') # Cardinality(applied)

\* C14: applied-set invariant. Through any sequence of Migrate calls and
\* failures, every Up executed is for a version not applied at that moment
\* (so no version is ever recorded twice), every Down for an applied one,
\* and the set changes by exactly one version per committed action.
C14_AppliedSet == []TargetsFit /\ [][OneVersionPerCommit]_vars

C14_Witness ==
  /\ pc = "commit"
  /\ idx = 2
  /\ actions[idx].Direction = Up
  /\ log[1].out = "committed"
  /\ appliedAtPlan # {}
\* The list Plan returned is the list Migrate passes to the store, for the
\* same catalog, applied set and target.
SameList ==
  /\ (pc = "done" /\ op = "Plan" /\ ~planErr)
       => actions = handed(catalog, snaps, applied, version, fault).actions
  /\ (op = "Migrate" /\ ~planErr)
       => actions = planned(catalog, snaps, appliedAtPlan, version, fault).actions

\* A step of Plan starts no unit and changes neither the applied set nor
\* the schema.
PlanChangesNothing ==
  (pc = "idle" /\ op' = "Plan")
    => applied' = applied /\ schema' = schema /\ log' = <<>> /\ pc' = "done"

\* C15: Plan is a dry run of Migrate. Plan never calls the store's Migrate
\* and leaves the applied set unchanged, and the list it returns is the
\* list Migrate hands to the store.
C15_DryRun == []SameList /\ [][PlanChangesNothing]_vars

C15_Witness ==
  /\ pc = "done"
  /\ op = "Plan"
  /\ Len(actions) >= 2
  /\ applied # {}
\* The setup statement ran at most once, exactly when the flag is set; it
\* has run whenever the running call has listed the store or is past the
\* init of the store's Migrate.
SetupDone ==
  /\ setups <= 1
  /\ inited <=> setups = 1
  /\ (InUnit \/ pc = "loop") => setups = 1
  /\ (op # "none" /\ catalog # {} /\ fault.kind # "prov") => setups = 1

\* The setup runs in a step that does not change the applied set, and the
\* applied set changes only after it.
SetupFirst ==
  /\ setups' # setups => setups = 0 /\ setups' = 1 /\ applied' = applied
  /\ applied' # applied => setups = 1

\* C16: one-time lazy setup. Over any sequence of calls the bookkeeping
\* table setup is executed at most once, at the start of the first List or
\* Migrate call on the store, before applied state is read or changed.
C16_LazySetupOnce == []SetupDone /\ [][SetupFirst]_vars

C16_Witness ==
  /\ pc = "loop"
  /\ catalog # {}
  /\ actions # <<>>
  /\ setups = 1
\* The ways a unit run by transaction() ends without a commit while
\* transaction() itself returns: BeginTx failed, a step returned an error,
\* a step panicked and the panic was recovered, Commit failed.
Uncommitted == {"beginfailed", "failed", "recovered", "commitfailed"}

\* C17: an uncommitted unit is always reported. Whenever a unit ended
\* without committing, transaction() returned a non-nil error: the store's
\* Migrate has returned that error and started no further unit.
C17_UncommittedReported ==
  \A i \in DOMAIN log :
    log[i].out \in Uncommitted
      => transactionErr(log[i].out) /\ Len(log) = i /\ result = "err"
CarriesSnapshot(a) == a.Migration.kind = "snapshot"

\* C18: snapshot use is confined to an empty store. A plan holds a
\* snapshot-carrying action only when nothing was applied at planning time,
\* at most one, and as its first action; on a non-empty applied set every
\* Up action carries the up text of its migration.
C18_SnapshotOnlyOnEmptyStore ==
  PlanReturned =>
    /\ \A i \in DOMAIN actions :
         CarriesSnapshot(actions[i])
           => /\ applied = {}
              /\ i = 1
              /\ actions[i] = Action(actions[i].Version,
                                     SnapshotText(snaps, actions[i].Version), Up)
    /\ applied # {}
         => \A i \in DOMAIN actions :
              actions[i].Direction = Up
                => actions[i].Migration = UpText(actions[i].Version)

C18_Witness ==
  /\ PlanReturned
  /\ applied # {}
  /\ Len(actions) >= 2
  /\ AllUp(actions)
  /\ \A i \in DOMAIN actions : actions[i].Version \in snaps
\* Migrate has returned nil with every planned action committed.
MigrateCompleted ==
  pc = "done" /\ op = "Migrate" /\ result = "ok" /\ AllCommitted

\* After a completed forward run that started with the snapshot of s on an
\* empty store: s and the later catalog versions up to the target are
\* recorded, nothing below s is, and Migrate(0) would plan exactly the Down
\* actions of the recorded versions.
RecordedAfterSnapshot ==
  (MigrateCompleted /\ appliedAtPlan = {} /\ actions # <<>>
     /\ CarriesSnapshot(actions[1]))
    => LET s == actions[1].Version
       IN /\ applied = {s} \cup {v \in catalog : v > s /\ v <= version}
          /\ \A v \in applied : v >= s
          /\ IsDownPlanOf(handed(catalog, snaps, applied, 0, NoFault).actions, applied)

\* A completed Migrate(0) on a store that holds catalog versions only has
\* reverted exactly the recorded versions and left the applied set empty.
DownToZeroEmpties ==
  (MigrateCompleted /\ version = 0 /\ appliedAtPlan \subseteq catalog)
    => IsDownPlanOf(actions, appliedAtPlan) /\ applied = {}

\* C19: bookkeeping after a snapshot. Migrate(T) on an empty store records
\* the snapshot version and the later planned versions, none below the
\* snapshot; Migrate(0) then reverts only those and empties the applied
\* set, so the two calls are a round trip on the applied set.
C19_SnapshotRoundTrip == RecordedAfterSnapshot /\ DownToZeroEmpties

C19_Witness ==
  /\ MigrateCompleted
  /\ appliedAtPlan = {}
  /\ Len(actions) >= 2
  /\ CarriesSnapshot(actions[1])
  /\ \E v \in catalog : v < actions[1].Version

\* The separator a line is, or locOutside for any other line.
SeparatorOf(line) ==
  IF line = sqlUpSeparator THEN locUp
  ELSE IF line = sqlDownSeparator THEN locDown
  ELSE IF line = sqlSnapshotSeparator THEN locSnapshot
  ELSE locOutside

\* The section line i of the file lies in: that of the last separator
\* before it, outside when there is none.
SectionOf(i) ==
  LET before == {j \in 1..(i - 1) : SeparatorOf(file[j]) # locOutside}
  IN IF before = {} THEN locOutside ELSE SeparatorOf(file[Max(before)])

\* The lines of section k among the first n lines, each ended by a newline,
\* in file order; separator lines belong to no section.
RECURSIVE SectionText(_, _)
SectionText(k, n) ==
  IF n = 0 THEN <<>>
  ELSE IF SeparatorOf(file[n]) = locOutside /\ SectionOf(n) = k
    THEN SectionText(k, n - 1) \o file[n] \o <<"\n">>
    ELSE SectionText(k, n - 1)

\* res is raw without its leading and trailing whitespace.
IsTrimOf(res, raw) ==
  /\ \E i \in 1..(Len(raw) + 1), j \in 0..Len(raw) :
       /\ res = SubSeq(raw, i, j)
       /\ \A p \in 1..Len(raw) : (p < i \/ p > j) => IsSpace(raw[p])
  /\ res # <<>> => ~IsSpace(res[1]) /\ ~IsSpace(res[Len(res)])

\* C20: file section parsing. Separator lines switch the section and are
\* never content; every other line goes to the section it lies in, lines
\* before the first separator are dropped, a re-entered section keeps
\* accumulating, and each returned section is trimmed of leading and
\* trailing whitespace (no --SNAPSHOT-- line: empty snapshot).
C20_SectionParsing ==
  parsed.done =>
    /\ IsTrimOf(parsed.up, SectionText(locUp, Len(file)))
    /\ IsTrimOf(parsed.down, SectionText(locDown, Len(file)))
    /\ IsTrimOf(parsed.snapshot, SectionText(locSnapshot, Len(file)))
    /\ (\A i \in DOMAIN file : file[i] # sqlSnapshotSeparator) => parsed.snapshot = <<>>

C20_Witness ==
  /\ parsed.done
  /\ file = <<sqlUpSeparator, <<"a">>, sqlDownSeparator, sqlUpSeparator, <<"a">>>>
  /\ parsed.up = <<"a", "\n", "a">>
  /\ parsed.down = <<>>
====
